---------------------------- MODULE Spec2Model ----------------------------
(***************************************************************************)
(* Model of src/app.py: the marathon ATS + durability planner.             *)
(*                                                                         *)
(* Number representation (Python floats become fixed-point integers):      *)
(*   minutes     -> half-seconds            (1 minute  = 120 units)        *)
(*   km          -> tenths of a km          (1 km      = 10 units)         *)
(*   km/h        -> hundredths of a km/h    (1 km/h    = 100 units)        *)
(*   DF, ratios  -> thousandths             (1.0       = 1000 units)       *)
(* Python strings are sequences of one-character strings.                  *)
(* A Python result is a record [tag, val]: tag "ok" carries a value,       *)
(* "none" is None, "raise" is an exception leaving the function (val names *)
(* it) and "complex" is a complex number (what ** returns for a negative   *)
(* base with a fractional exponent).                                       *)
(***************************************************************************)
EXTENDS Integers, Sequences, FiniteSets, TLC

VARIABLES fn, arg, ret,
          pc, widgets, ten_k_min, marathon_min, ten_k_speed, df_est,
          predicted_mar_min, mp_speed, week_df, week_ats, zone_summary

callVars == <<fn, arg, ret>>
scriptVars == <<pc, widgets, ten_k_min, marathon_min, ten_k_speed, df_est,
                predicted_mar_min, mp_speed, week_df, week_ats, zone_summary>>
vars == <<fn, arg, ret, pc, widgets, ten_k_min, marathon_min, ten_k_speed,
          df_est, predicted_mar_min, mp_speed, week_df, week_ats, zone_summary>>

-----------------------------------------------------------------------------
(* Python values *)

Ok(v) == [tag |-> "ok", val |-> v]
None == [tag |-> "none", val |-> 0]
Raise(e) == [tag |-> "raise", val |-> e]
Complex == [tag |-> "complex", val |-> 0]

Abs(x) == IF x < 0 THEN -x ELSE x

(* float division a / b for b # 0, rounded toward zero *)
FDiv(a, b) ==
    LET q == Abs(a) \div Abs(b)
    IN  IF (a < 0) = (b < 0) THEN q ELSE -q

(* Python round(): n / d to the nearest integer, ties to the even one (d > 0) *)
RoundHalfEven(n, d) ==
    LET q == n \div d
        r == n % d
    IN  IF 2 * r < d THEN q
        ELSE IF 2 * r > d THEN q + 1
        ELSE IF q % 2 = 0 THEN q ELSE q + 1

RECURSIVE SumSeq(_)
SumSeq(s) == IF s = <<>> THEN 0 ELSE Head(s) + SumSeq(Tail(s))

-----------------------------------------------------------------------------
(* Python str and int() *)

Digits == <<"0", "1", "2", "3", "4", "5", "6", "7", "8", "9">>
IsDigit(c) == \E i \in 1..10 : Digits[i] = c
DigitVal(c) == (CHOOSE i \in 1..10 : Digits[i] = c) - 1

RECURSIVE LStrip(_)
LStrip(s) == IF s # <<>> /\ Head(s) = " " THEN LStrip(Tail(s)) ELSE s

RECURSIVE RStrip(_)
RStrip(s) ==
    IF s # <<>> /\ s[Len(s)] = " " THEN RStrip(SubSeq(s, 1, Len(s) - 1)) ELSE s

Strip(s) == RStrip(LStrip(s))

(* str.split(sep): always at least one part, empty parts kept *)
RECURSIVE Split(_, _)
Split(s, sep) ==
    IF \A i \in 1..Len(s) : s[i] # sep THEN <<s>>
    ELSE LET k == CHOOSE i \in 1..Len(s) :
                      s[i] = sep /\ \A j \in 1..(i - 1) : s[j] # sep
         IN  <<SubSeq(s, 1, k - 1)>> \o Split(SubSeq(s, k + 1, Len(s)), sep)

(* str.split()[0]: the first whitespace-delimited word; IndexError if none *)
FirstWord(s) ==
    LET t == LStrip(s)
    IN  IF t = <<>> THEN Raise("IndexError")
        ELSE Ok(Head(Split(t, " ")))

RECURSIVE DigitsVal(_)
DigitsVal(s) ==
    IF s = <<>> THEN 0
    ELSE 10 * DigitsVal(SubSeq(s, 1, Len(s) - 1)) + DigitVal(s[Len(s)])

(* int(p): surrounding whitespace ignored, an optional sign, then digits *)
IntOf(p) ==
    LET t == Strip(p)
        signed == t # <<>> /\ Head(t) \in {"-", "+"}
        body == IF signed THEN Tail(t) ELSE t
    IN  IF body = <<>> \/ \E i \in 1..Len(body) : ~IsDigit(body[i])
        THEN Raise("ValueError")
        ELSE Ok(IF signed /\ Head(t) = "-" THEN -DigitsVal(body)
                ELSE DigitsVal(body))

RECURSIVE IntToStr(_)
IntToStr(n) ==
    IF n < 0 THEN <<"-">> \o IntToStr(-n)
    ELSE IF n < 10 THEN <<Digits[n + 1]>>
    ELSE IntToStr(n \div 10) \o <<Digits[(n % 10) + 1]>>

(* format spec d *)
FmtD(n) == IntToStr(n)

(* format spec 02d: zero-padded to width 2, the sign counted in the width *)
Fmt02d(n) ==
    IF n < 0 THEN (IF -n < 10 THEN <<"-">> \o IntToStr(-n) ELSE IntToStr(n))
    ELSE IF n < 10 THEN <<"0">> \o IntToStr(n)
    ELSE IntToStr(n)

-----------------------------------------------------------------------------
(* parse_time_to_min *)

(* [int(p) for p in ...]: the first failing int() raises *)
IntParts(parts) ==
    IF \E i \in 1..Len(parts) : IntOf(parts[i]).tag = "raise"
    THEN Raise("ValueError")
    ELSE Ok([i \in 1..Len(parts) |-> IntOf(parts[i]).val])

(* a fault: a lone number is taken as minutes *)
ParseTry_BareMinutes(time_str) ==
    LET parts == IntParts(Split(Strip(time_str), ":"))
    IN  IF parts.tag = "raise" THEN parts
        ELSE IF Len(parts.val) = 1 THEN Ok(parts.val[1] * 120)
        ELSE IF Len(parts.val) = 2
             THEN Ok((0 * 60 + parts.val[1]) * 120 + parts.val[2] * 2)
        ELSE IF Len(parts.val) = 3
             THEN Ok((parts.val[1] * 60 + parts.val[2]) * 120 + parts.val[3] * 2)
        ELSE None

(* the body of the try block *)
ParseTry(time_str) ==
    LET parts == IntParts(Split(Strip(time_str), ":"))
    IN  IF parts.tag = "raise" THEN parts
        ELSE IF Len(parts.val) = 2
             THEN Ok((0 * 60 + parts.val[1]) * 120 + parts.val[2] * 2)
        ELSE IF Len(parts.val) = 3
             THEN Ok((parts.val[1] * 60 + parts.val[2]) * 120 + parts.val[3] * 2)
        ELSE None

(* a fault: the except clause is missing *)
ParseTimeToMin_NoCatch(time_str) ==
    IF time_str = <<>> THEN None ELSE ParseTry(time_str)

ParseTimeToMin(time_str) ==
    IF time_str = <<>> THEN None
    ELSE LET r == ParseTry(time_str)
         IN  IF r.tag = "raise" THEN None ELSE r

-----------------------------------------------------------------------------
(* format_min_to_hms, speed_from_time, pace_from_speed, format_pace *)

(* a fault: the seconds are printed with d instead of 02d *)
FormatMinToHms_NoPad(minutes) ==
    LET total_seconds == RoundHalfEven(minutes, 2)
        h == total_seconds \div 3600
        m == (total_seconds % 3600) \div 60
        s == total_seconds % 60
    IN  IF h > 0 THEN FmtD(h) \o <<":">> \o Fmt02d(m) \o <<":">> \o FmtD(s)
        ELSE FmtD(m) \o <<":">> \o FmtD(s)

FormatMinToHms(minutes) ==
    LET total_seconds == RoundHalfEven(minutes, 2)
        h == total_seconds \div 3600
        m == (total_seconds % 3600) \div 60
        s == total_seconds % 60
    IN  IF h > 0 THEN FmtD(h) \o <<":">> \o Fmt02d(m) \o <<":">> \o Fmt02d(s)
        ELSE FmtD(m) \o <<":">> \o Fmt02d(s)

(* distance_km in tenths of a km, time_min in half-seconds *)
SpeedFromTime(distance_km, time_min) ==
    IF time_min = 0 THEN Raise("ZeroDivisionError")
    ELSE Ok(FDiv(distance_km * 72000, time_min))

PaceFromSpeed(speed_kmh) ==
    IF speed_kmh = 0 THEN Raise("ZeroDivisionError")
    ELSE Ok(FDiv(720000, speed_kmh))

(* a fault: the s == 60 carry is missing *)
PaceFields_NoRollover(pace_min_per_km) ==
    LET m == FDiv(pace_min_per_km, 120)
        s == RoundHalfEven(pace_min_per_km - 120 * m, 2)
    IN  [m |-> m, s |-> s]

(* the minute and second fields format_pace prints *)
PaceFields(pace_min_per_km) ==
    LET m == FDiv(pace_min_per_km, 120)
        s == RoundHalfEven(pace_min_per_km - 120 * m, 2)
    IN  IF s = 60 THEN [m |-> m + 1, s |-> 0] ELSE [m |-> m, s |-> s]

FormatPace(pace_min_per_km) ==
    LET f == PaceFields(pace_min_per_km)
    IN  FmtD(f.m) \o <<":">> \o Fmt02d(f.s) \o <<" ", "/", "k", "m">>

-----------------------------------------------------------------------------
(* estimate_df_from_decay_and_volume *)

(* dist_ratio ** riegel_exp = 4.2195 ** 1.06 = 4.600199..., in thousandths *)
RiegelFactor == 4600
typical_decay == 1080
k_sens == 1500
ideal_km == 6000
df_low == 750
df_high == 1300

Max(a, b) == IF a >= b THEN a ELSE b
Min(a, b) == IF a <= b THEN a ELSE b

Clamp(df) == Max(df_low, Min(df_high, df))

(* 1. base from the 10K -> marathon decay; both arguments are Python values *)
DfBase(ten_k, marathon) ==
    IF ten_k.tag # "none" /\ marathon.tag # "none"
    THEN LET predicted == FDiv(ten_k.val * RiegelFactor, 1000)
         IN  IF predicted = 0 THEN Raise("ZeroDivisionError")
             ELSE LET decay_ratio == FDiv(marathon.val * 1000, predicted)
                  IN  Ok(1000 + FDiv((typical_decay - decay_ratio) * k_sens, 1000))
    ELSE Ok(1000)

(* 2. volume factor around ideal_km *)
VolFactor(annual) ==
    LET vol_ratio == FDiv(annual * 1000, ideal_km)
    IN  1000 + FDiv(150 * (vol_ratio - 1000), 1000)

EstimateDf(ten_k, marathon, annual) ==
    LET df_base == DfBase(ten_k, marathon)
    IN  IF df_base.tag = "raise" THEN df_base
        ELSE Ok(Clamp(FDiv(df_base.val * VolFactor(annual), 1000)))

-----------------------------------------------------------------------------
(* marathon_time_from_ats_df *)

(* 4666.0 * (ats_kmh ** -1.33) in half-seconds, for ats_kmh in hundredths of *)
(* a km/h; tabulated at the speeds the model uses                            *)
AtsSamples == {1000, 1150, 1320, 1470, 1600}
PowerLawBase(ats_kmh) ==
    CASE ats_kmh = 1000 -> 26189
      [] ats_kmh = 1150 -> 21747
      [] ats_kmh = 1320 -> 18104
      [] ats_kmh = 1470 -> 15689
      [] ats_kmh = 1600 -> 14017

(* a fault: the 8 minutes are not added *)
MarathonTimeFromAtsDf_NoOffset(ats_kmh, df) ==
    IF ats_kmh = 0 THEN Raise("ZeroDivisionError")
    ELSE IF df = 0 THEN Raise("ZeroDivisionError")
    ELSE IF ats_kmh < 0 THEN Complex
    ELSE Ok(FDiv(PowerLawBase(ats_kmh) * 1000, df))

MarathonTimeFromAtsDf(ats_kmh, df) ==
    IF ats_kmh = 0 THEN Raise("ZeroDivisionError")
    ELSE IF df = 0 THEN Raise("ZeroDivisionError")
    ELSE IF ats_kmh < 0 THEN Complex
    ELSE Ok(FDiv(PowerLawBase(ats_kmh) * 1000, df) + 8 * 120)

-----------------------------------------------------------------------------
(* PLAN_TEMPLATES, zone_speed_from_mp, expand_plan *)

Z1 == <<"Z", "1">>
Z2 == <<"Z", "2">>
Z3 == <<"Z", "3">>
Z4 == <<"Z", "4">>
Z5 == <<"Z", "5">>
Z2_Z3 == <<"Z", "2", "_", "Z", "3">>
Z3_Z4 == <<"Z", "3", "_", "Z", "4">>

Block(day, zone, pct) == [day |-> day, zone |-> zone, dist_pct |-> pct]

(* dist_pct in hundredths; the workout names are display text, left out *)
PLAN_TEMPLATES ==
    [plan \in {"Pfitzinger", "Daniels", "Canova", "Tinman"} |->
        CASE plan = "Pfitzinger" ->
               <<Block("Mon", Z1, 10), Block("Tue", Z4, 15), Block("Wed", Z2, 18),
                 Block("Thu", Z1, 10), Block("Fri", Z2, 12), Block("Sat", Z5, 10),
                 Block("Sun", Z2_Z3, 25)>>
          [] plan = "Daniels" ->
               <<Block("Mon", Z1, 12), Block("Tue", Z4, 16), Block("Wed", Z2, 18),
                 Block("Thu", Z1, 10), Block("Fri", Z5, 14), Block("Sat", Z1, 10),
                 Block("Sun", Z2_Z3, 20)>>
          [] plan = "Canova" ->
               <<Block("Mon", Z1, 10), Block("Tue", Z3_Z4, 20), Block("Wed", Z2, 18),
                 Block("Thu", Z1, 10), Block("Fri", Z3_Z4, 17), Block("Sat", Z1, 10),
                 Block("Sun", Z2_Z3, 15)>>
          [] plan = "Tinman" ->
               <<Block("Mon", Z1, 14), Block("Tue", Z4, 16), Block("Wed", Z1, 14),
                 Block("Thu", Z3, 16), Block("Fri", Z1, 10), Block("Sat", Z5, 10),
                 Block("Sun", Z2_Z3, 20)>>]

(* factor in hundredths *)
ZoneFactor(zone) ==
    IF zone = Z1 THEN 78
    ELSE IF zone = Z2 THEN 88
    ELSE IF zone = Z3 THEN 98
    ELSE IF zone = Z4 THEN 108
    ELSE IF zone = Z5 THEN 118
    ELSE IF zone = Z2_Z3 THEN 93
    ELSE IF zone = Z3_Z4 THEN 103
    ELSE 88

ZoneSpeedFromMp(mp, zone) == FDiv(mp * ZoneFactor(zone), 100)

Row(day, zone, km, pace, spd) ==
    [Day |-> day, Zone |-> zone, Distance_km |-> km, Target_pace |-> pace,
     Target_speed_kmh |-> spd]

(* one iteration of the loop over the template: a row, or the exception *)
ExpandBlock(block, weekly, mp) ==
    LET spd == ZoneSpeedFromMp(mp, block.zone)
        pace == PaceFromSpeed(spd)
    IN  IF pace.tag = "raise" THEN pace
        ELSE Ok(Row(block.day, block.zone,
                    RoundHalfEven(weekly * block.dist_pct, 10),
                    FormatPace(pace.val), spd))

ExpandPlan(plan, weekly, mp) ==
    LET template == PLAN_TEMPLATES[plan]
        rows == [i \in 1..Len(template) |-> ExpandBlock(template[i], weekly, mp)]
    IN  IF \E i \in 1..Len(rows) : rows[i].tag = "raise"
        THEN Raise("ZeroDivisionError")
        ELSE Ok([i \in 1..Len(rows) |-> rows[i].val])

-----------------------------------------------------------------------------
(* compute_weekly_ats *)

TotalKm(df) == SumSeq([i \in 1..Len(df) |-> df[i].Distance_km])

(* pace_min of a row whose Target_pace has a first word *)
RowPace(row) == ParseTimeToMin(FirstWord(row.Target_pace).val)

(* what one iteration of either loop does with a row: "raise", "skip" *)
(* (the continue) or "use"                                             *)
RowStep(row) ==
    IF FirstWord(row.Target_pace).tag = "raise" THEN "raise"
    ELSE IF RowPace(row).tag = "none" \/ RowPace(row).val <= 0 THEN "skip"
    ELSE "use"

(* first loop: speeds.append(speed_from_time(km, km * pace_min)); the two *)
(* arguments are scaled by ten alike to stay integers                     *)
RowSpeed(row) ==
    IF RowStep(row) = "raise" THEN FirstWord(row.Target_pace)
    ELSE IF RowStep(row) = "skip" THEN None
    ELSE SpeedFromTime(10 * row.Distance_km, row.Distance_km * RowPace(row).val)

(* second loop: total_time_h, in units of 1/72000 h *)
TotalTime(df) ==
    SumSeq([i \in 1..Len(df) |->
               IF RowStep(df[i]) = "use"
               THEN df[i].Distance_km * RowPace(df[i]).val ELSE 0])

ComputeWeeklyAts(df) ==
    IF TotalKm(df) = 0 THEN Ok(0)
    ELSE IF \E i \in 1..Len(df) : RowSpeed(df[i]).tag = "raise"
    THEN RowSpeed(df[CHOOSE i \in 1..Len(df) :
                         /\ RowSpeed(df[i]).tag = "raise"
                         /\ \A j \in 1..(i - 1) : RowSpeed(df[j]).tag # "raise"])
    ELSE IF TotalTime(df) = 0 THEN Ok(0)
    ELSE Ok(FDiv(TotalKm(df) * 720000, TotalTime(df)))

-----------------------------------------------------------------------------
(* summarize_zones *)

EmptyDict == [z \in {} |-> 0]

(* zone_km[key] = zone_km.get(key, 0.0) + v *)
DictAdd(d, key, v) ==
    IF key \in DOMAIN d THEN [d EXCEPT ![key] = @ + v] ELSE d @@ (key :> v)

RECURSIVE DictAddAll(_, _, _)
DictAddAll(d, keys, v) ==
    IF keys = <<>> THEN d
    ELSE DictAddAll(DictAdd(d, Head(keys), v), Tail(keys), v)

(* a fault: a mixed row adds its whole distance to each of its zones *)
ZoneStep_NoHalving(zone_km, row) ==
    IF row.Zone \in {Z2_Z3, Z3_Z4}
    THEN DictAddAll(zone_km, Split(row.Zone, "_"), 2 * row.Distance_km)
    ELSE DictAdd(zone_km, row.Zone, 2 * row.Distance_km)

(* the body of the loop over the rows; zone_km in twentieths of a km *)
ZoneStep(zone_km, row) ==
    IF row.Zone \in {Z2_Z3, Z3_Z4}
    THEN DictAddAll(zone_km, Split(row.Zone, "_"), row.Distance_km)
    ELSE DictAdd(zone_km, row.Zone, 2 * row.Distance_km)

RECURSIVE ZoneKm(_, _)
ZoneKm(zone_km, df) ==
    IF df = <<>> THEN zone_km
    ELSE ZoneKm(ZoneStep(zone_km, Head(df)), Tail(df))

Ord(c) == IF IsDigit(c) THEN 48 + DigitVal(c) ELSE IF c = "Z" THEN 90 ELSE 95

(* str < str *)
RECURSIVE StrLess(_, _)
StrLess(a, b) ==
    IF b = <<>> THEN FALSE
    ELSE IF a = <<>> THEN TRUE
    ELSE IF Head(a) # Head(b) THEN Ord(Head(a)) < Ord(Head(b))
    ELSE StrLess(Tail(a), Tail(b))

RECURSIVE Sorted(_)
Sorted(keys) ==
    IF keys = {} THEN <<>>
    ELSE LET least == CHOOSE z \in keys : \A y \in keys \ {z} : StrLess(z, y)
         IN  <<least>> \o Sorted(keys \ {least})

DictTotal(d) == SumSeq([i \in 1..Len(Sorted(DOMAIN d)) |-> d[Sorted(DOMAIN d)[i]]])

(* the summary: zone_km as accumulated, and the table rows with km rounded *)
(* to a tenth and the share of the week in thousandths                     *)
SummarizeZones(df) ==
    LET zone_km == ZoneKm(EmptyDict, df)
        total == DictTotal(zone_km)
        order == Sorted(DOMAIN zone_km)
    IN  [zone_km |-> zone_km,
         rows |-> [i \in 1..Len(order) |->
                     [Zone |-> order[i],
                      km |-> RoundHalfEven(zone_km[order[i]], 2),
                      pct |-> IF total > 0
                              THEN RoundHalfEven(1000 * zone_km[order[i]], total)
                              ELSE 0]]]

-----------------------------------------------------------------------------
(* Bounds and input sets *)

MaxLen == 5
MaxHours == 2
MaxPace == 1320
MaxRows == 2

Pending == [tag |-> "pending", val |-> 0]
Unset == [tag |-> "unset", val |-> 0]

ParseAlphabet == {"4", "5", ":", "-", "x", " "}
Strings == UNION {[1..n -> ParseAlphabet] : n \in 0..MaxLen}

(* minutes, in half-seconds: whole hours, a few minute marks, every half-second *)
HmsInputs ==
    {h * 7200 + m * 120 + k : h \in 0..MaxHours, m \in {0, 5, 9, 10, 59}, k \in 0..119}

PaceInputs == 0..MaxPace

SpeedArgs == {0, 100, 422} \X {-600, 0, 4984, 21600}
PaceArgs == {-1200, 0, 1, 1200, 1444}

DfArgs ==
    {None, Ok(0), Ok(2400), Ok(4984), Ok(-4984)}
        \X {None, Ok(0), Ok(-100), Ok(9000), Ok(21600), Ok(36000)}
        \X {-40000, 0, 500, 4300, 6000, 12000, 100000}

MarathonArgs == (AtsSamples \cup {0, -1320}) \X {-1000, 0, 750, 958, 1000, 1300}

Str_5_00 == <<"5", ":", "0", "0", " ", "/", "k", "m">>
Str_4_30 == <<"4", ":", "3", "0", " ", "/", "k", "m">>
Str_0_00 == <<"0", ":", "0", "0", " ", "/", "k", "m">>
Str_bad == <<"x", " ", "/", "k", "m">>
Str_blank == <<" ">>

AtsRowSet ==
    {Row("Mon", Z1, km, pace, 0) :
        km \in {0, 50, 100},
        pace \in {Str_5_00, Str_4_30, Str_0_00, Str_bad, Str_blank}}

ZoneRowSet ==
    {Row("Mon", zone, km, Str_5_00, 0) :
        zone \in {Z1, Z2, Z3, Z4, Z5, Z2_Z3, Z3_Z4}, km \in {61, 100}}

AtsPlans == UNION {[1..n -> AtsRowSet] : n \in 0..MaxRows}
ZonePlans == UNION {[1..n -> ZoneRowSet] : n \in 0..MaxRows}

ArgsOf(f) ==
    CASE f = "parse_time_to_min" -> Strings
      [] f = "format_min_to_hms" -> HmsInputs
      [] f = "format_pace" -> PaceInputs
      [] f = "speed_from_time" -> SpeedArgs
      [] f = "pace_from_speed" -> PaceArgs
      [] f = "estimate_df_from_decay_and_volume" -> DfArgs
      [] f = "marathon_time_from_ats_df" -> MarathonArgs
      [] f = "compute_weekly_ats" -> AtsPlans
      [] f = "summarize_zones" -> ZonePlans

Functions ==
    {"parse_time_to_min", "format_min_to_hms", "format_pace", "speed_from_time",
     "pace_from_speed", "estimate_df_from_decay_and_volume",
     "marathon_time_from_ats_df", "compute_weekly_ats", "summarize_zones"}

Str_41_32 == <<"4", "1", ":", "3", "2">>
Str_zero == <<"0", ":", "0", "0">>
Str_abc == <<"a", "b", "c">>
Str_1_02_03 == <<"1", ":", "0", "2", ":", "0", "3">>
Str_neg == <<"-", "5", ":", "0", "0">>
Str_3_05_00 == <<"3", ":", "0", "5", ":", "0", "0">>

(* what the sidebar widgets can hold *)
WidgetValues ==
    [ten_k_str : {Str_41_32, Str_zero, <<>>, Str_abc, Str_1_02_03, Str_neg},
     marathon_str : {<<>>, Str_3_05_00, Str_abc, Str_zero},
     annual_km : {500, 4300, 12000},
     plan_name : {"Pfitzinger", "Daniels", "Canova", "Tinman"},
     weekly_km : {60, 112, 180},
     target_ats : AtsSamples]

IdleWidgets ==
    [ten_k_str |-> <<>>, marathon_str |-> <<>>, annual_km |-> 4300,
     plan_name |-> "Pfitzinger", weekly_km |-> 112, target_ats |-> 1320]

ScriptUnset ==
    /\ ten_k_min = Unset /\ marathon_min = Unset /\ ten_k_speed = Unset
    /\ df_est = Unset /\ predicted_mar_min = Unset /\ mp_speed = Unset
    /\ week_df = Unset /\ week_ats = Unset /\ zone_summary = Unset

-----------------------------------------------------------------------------
(* Calls of the functions, one at a time *)

Init ==
    /\ fn \in Functions
    /\ arg \in ArgsOf(fn)
    /\ ret = Pending
    /\ pc = "idle"
    /\ widgets = IdleWidgets
    /\ ScriptUnset

Returns(f, value) ==
    /\ fn = f
    /\ ret.tag = "pending"
    /\ ret' = value
    /\ UNCHANGED <<fn, arg, scriptVars>>

Call_parse_time_to_min == Returns("parse_time_to_min", ParseTimeToMin(arg))
Call_format_min_to_hms == Returns("format_min_to_hms", Ok(FormatMinToHms(arg)))
Call_format_pace == Returns("format_pace", Ok(FormatPace(arg)))
Call_speed_from_time == Returns("speed_from_time", SpeedFromTime(arg[1], arg[2]))
Call_pace_from_speed == Returns("pace_from_speed", PaceFromSpeed(arg))
Call_estimate_df ==
    Returns("estimate_df_from_decay_and_volume", EstimateDf(arg[1], arg[2], arg[3]))
Call_marathon_time ==
    Returns("marathon_time_from_ats_df", MarathonTimeFromAtsDf(arg[1], arg[2]))
Call_compute_weekly_ats == Returns("compute_weekly_ats", ComputeWeeklyAts(arg))
Call_summarize_zones == Returns("summarize_zones", Ok(SummarizeZones(arg)))

Next ==
    \/ Call_parse_time_to_min
    \/ Call_format_min_to_hms
    \/ Call_format_pace
    \/ Call_speed_from_time
    \/ Call_pace_from_speed
    \/ Call_estimate_df
    \/ Call_marathon_time
    \/ Call_compute_weekly_ats
    \/ Call_summarize_zones

Spec == Init /\ [][Next]_vars

-----------------------------------------------------------------------------
(* One top-to-bottom run of the script *)

ScriptInit ==
    /\ fn = "script"
    /\ arg = <<>>
    /\ ret = Unset
    /\ pc = "parse"
    /\ widgets \in WidgetValues
    /\ ScriptUnset

(* 42.195 / (predicted_mar_min / 60.0), in hundredths of a km/h *)
MpSpeed(predicted) ==
    IF predicted = 0 THEN Raise("ZeroDivisionError")
    ELSE Ok(FDiv(30380400, predicted))

(* ten_k_min = parse_time_to_min(ten_k_str); marathon_min likewise, if given *)
ParseInputs ==
    /\ pc = "parse"
    /\ ten_k_min' = ParseTimeToMin(widgets.ten_k_str)
    /\ marathon_min' = IF widgets.marathon_str # <<>>
                       THEN ParseTimeToMin(widgets.marathon_str) ELSE None
    /\ pc' = "validate"
    /\ UNCHANGED <<callVars, widgets, ten_k_speed, df_est, predicted_mar_min,
                   mp_speed, week_df, week_ats, zone_summary>>

(* if ten_k_min is None: st.error(...); st.stop() *)
StopOnInvalid10K ==
    /\ pc = "validate"
    /\ ten_k_min.tag = "none"
    /\ pc' = "stopped"
    /\ UNCHANGED <<callVars, widgets, ten_k_min, marathon_min, ten_k_speed, df_est,
                   predicted_mar_min, mp_speed, week_df, week_ats, zone_summary>>

(* ten_k_speed, ten_k_pace and the sidebar text that formats the pace *)
TenKSpeed ==
    /\ pc = "validate"
    /\ ten_k_min.tag # "none"
    /\ LET speed == SpeedFromTime(100, ten_k_min.val)
           pace == IF speed.tag = "raise" THEN speed ELSE PaceFromSpeed(speed.val)
       IN  /\ ten_k_speed' = IF pace.tag = "raise" THEN pace ELSE speed
           /\ pc' = IF pace.tag = "raise" THEN "exception" ELSE "estimate_df"
    /\ UNCHANGED <<callVars, widgets, ten_k_min, marathon_min, df_est,
                   predicted_mar_min, mp_speed, week_df, week_ats, zone_summary>>

EstimateDfStep ==
    /\ pc = "estimate_df"
    /\ df_est' = EstimateDf(ten_k_min, marathon_min, widgets.annual_km)
    /\ pc' = IF df_est'.tag = "raise" THEN "exception" ELSE "predict"
    /\ UNCHANGED <<callVars, widgets, ten_k_min, marathon_min, ten_k_speed,
                   predicted_mar_min, mp_speed, week_df, week_ats, zone_summary>>

(* predicted_mar_min, predicted_mar_pace and the Model Summary metrics *)
PredictStep ==
    /\ pc = "predict"
    /\ LET predicted == MarathonTimeFromAtsDf(widgets.target_ats, df_est.val)
           speed == IF predicted.tag = "ok" THEN MpSpeed(predicted.val) ELSE predicted
           pace == IF speed.tag = "ok" THEN PaceFromSpeed(speed.val) ELSE speed
       IN  /\ predicted_mar_min' = IF pace.tag = "ok" THEN predicted ELSE pace
           /\ pc' = IF pace.tag = "ok" THEN "expand_plan" ELSE "exception"
    /\ UNCHANGED <<callVars, widgets, ten_k_min, marathon_min, ten_k_speed, df_est,
                   mp_speed, week_df, week_ats, zone_summary>>

(* mp_speed and week_df = expand_plan(plan_name, weekly_km, mp_speed) *)
ExpandPlanStep ==
    /\ pc = "expand_plan"
    /\ mp_speed' = MpSpeed(predicted_mar_min.val)
    /\ week_df' = IF mp_speed'.tag = "raise" THEN mp_speed'
                  ELSE ExpandPlan(widgets.plan_name, widgets.weekly_km, mp_speed'.val)
    /\ pc' = IF week_df'.tag = "raise" THEN "exception" ELSE "weekly_ats"
    /\ UNCHANGED <<callVars, widgets, ten_k_min, marathon_min, ten_k_speed, df_est,
                   predicted_mar_min, week_ats, zone_summary>>

WeeklyAtsStep ==
    /\ pc = "weekly_ats"
    /\ week_ats' = ComputeWeeklyAts(week_df.val)
    /\ pc' = IF week_ats'.tag = "raise" THEN "exception" ELSE "zone_summary"
    /\ UNCHANGED <<callVars, widgets, ten_k_min, marathon_min, ten_k_speed, df_est,
                   predicted_mar_min, mp_speed, week_df, zone_summary>>

ZoneSummaryStep ==
    /\ pc = "zone_summary"
    /\ zone_summary' = Ok(SummarizeZones(week_df.val))
    /\ pc' = "done"
    /\ UNCHANGED <<callVars, widgets, ten_k_min, marathon_min, ten_k_speed, df_est,
                   predicted_mar_min, mp_speed, week_df, week_ats>>

ScriptNext ==
    \/ ParseInputs
    \/ StopOnInvalid10K
    \/ TenKSpeed
    \/ EstimateDfStep
    \/ PredictStep
    \/ ExpandPlanStep
    \/ WeeklyAtsStep
    \/ ZoneSummaryStep

Script == ScriptInit /\ [][ScriptNext]_vars

-----------------------------------------------------------------------------
(* Properties *)

Returned(f) == fn = f /\ ret.tag # "pending"

(* a row the ATS definition counts: distance > 0 and a pace that parses to *)
(* a positive value                                                        *)
ValidRow(row) ==
    /\ row.Distance_km > 0
    /\ FirstWord(row.Target_pace).tag = "ok"
    /\ ParseTimeToMin(FirstWord(row.Target_pace).val).tag = "ok"
    /\ ParseTimeToMin(FirstWord(row.Target_pace).val).val > 0

ValidKm(df) ==
    SumSeq([i \in 1..Len(df) |-> IF ValidRow(df[i]) THEN df[i].Distance_km ELSE 0])

ValidTime(df) ==
    SumSeq([i \in 1..Len(df) |->
               IF ValidRow(df[i])
               THEN df[i].Distance_km * ParseTimeToMin(FirstWord(df[i].Target_pace).val).val
               ELSE 0])

(* C1: compute_weekly_ats returns (sum of Distance_km over the valid rows)  *)
(* divided by (sum of Distance_km * pace over the valid rows, in hours);    *)
(* rows that are not valid add to neither sum.                              *)
C1_AtsOverValidRows ==
    (Returned("compute_weekly_ats") /\ ret.tag = "ok" /\ ValidTime(arg) > 0) =>
        ret.val = FDiv(ValidKm(arg) * 720000, ValidTime(arg))

(* C2: estimate_df_from_decay_and_volume returns, for every finite input, a *)
(* DF with 0.75 <= DF <= 1.30, and never raises.                            *)
C2_DfWithinClamp ==
    Returned("estimate_df_from_decay_and_volume") =>
        /\ ret.tag = "ok"
        /\ df_low <= ret.val
        /\ ret.val <= df_high

ColonParts(time_str) == Split(Strip(time_str), ":")
AllNumeric(parts) == \A i \in 1..Len(parts) : IntOf(parts[i]).tag = "ok"

(* C3: parse_time_to_min is total: it returns minutes or None and never      *)
(* raises; it returns None for the empty string, for a non-numeric part and  *)
(* for a number of colon-separated parts other than two or three.            *)
C3_ParseTotal ==
    Returned("parse_time_to_min") =>
        /\ ret.tag \in {"ok", "none"}
        /\ (\/ arg = <<>>
            \/ ~AllNumeric(ColonParts(arg))
            \/ Len(ColonParts(arg)) \notin {2, 3}) => ret.tag = "none"

C3_Witness ==
    /\ Returned("parse_time_to_min")
    /\ arg # <<>>
    /\ Len(ColonParts(arg)) = 2
    /\ ~AllNumeric(ColonParts(arg))
    /\ ret.tag = "none"

PartVal(time_str, i) == IntOf(ColonParts(time_str)[i]).val

ColonForms(time_str) ==
    /\ (Len(ColonParts(time_str)) = 3 /\ AllNumeric(ColonParts(time_str))) =>
           ret = Ok((PartVal(time_str, 1) * 60 + PartVal(time_str, 2)) * 120
                    + PartVal(time_str, 3) * 2)
    /\ (Len(ColonParts(time_str)) = 2 /\ AllNumeric(ColonParts(time_str))) =>
           ret = Ok(PartVal(time_str, 1) * 120 + PartVal(time_str, 2) * 2)

BareNumber(time_str) ==
    Len(ColonParts(time_str)) = 1 /\ AllNumeric(ColonParts(time_str))

(* C4 as stated: h:mm:ss gives h*60 + m + s/60, mm:ss gives m + s/60 and a *)
(* bare number gives that number of minutes.                               *)
C4_AcceptsThreeForms ==
    Returned("parse_time_to_min") =>
        /\ ColonForms(arg)
        /\ BareNumber(arg) => ret = Ok(PartVal(arg, 1) * 120)

(* C4 as amended: h:mm:ss gives h*60 + m + s/60, mm:ss gives m + s/60, and *)
(* a bare number with no colon gives None.                                 *)
C4_AcceptsTwoForms ==
    Returned("parse_time_to_min") =>
        /\ ColonForms(arg)
        /\ BareNumber(arg) => ret = None

C4_Witness ==
    /\ Returned("parse_time_to_min")
    /\ arg = <<"4", "5">>
    /\ ret = None

(* C5: no exception leaves speed_from_time, pace_from_speed,               *)
(* marathon_time_from_ats_df or compute_weekly_ats on a zero or            *)
(* non-positive denominator.                                               *)
C5_NoExceptionEscapes ==
    (/\ ret.tag # "pending"
     /\ fn \in {"speed_from_time", "pace_from_speed", "marathon_time_from_ats_df",
                "compute_weekly_ats"}) => ret.tag # "raise"

(* the fields of a printed time, as numbers *)
FieldVal(text, i) == IntOf(Split(text, ":")[i]).val
FieldLen(text, i) == Len(Split(text, ":")[i])
Unpadded(field) == Len(field) = 1 \/ Head(field) # "0"

(* seconds is the half-second count n rounded to the nearest second *)
NearestSecond(seconds, n) == 2 * seconds - n \in {-1, 0, 1}

Str_2_05_30 == <<"2", ":", "0", "5", ":", "3", "0">>

(* C6 as stated: format_min_to_hms always returns three colon-separated *)
(* components h:mm:ss, also under one hour.                             *)
C6_AlwaysThreeComponents ==
    Returned("format_min_to_hms") => Len(Split(ret.val, ":")) = 3

(* C6 as amended: format_min_to_hms returns h:mm:ss, with minutes and      *)
(* seconds zero-padded to two digits and hours not padded, when the value  *)
(* rounds to one hour or more, and m:ss, with seconds zero-padded and      *)
(* minutes not padded, when it rounds to less than one hour; the printed   *)
(* time is the input rounded to the nearest second; 125.5 gives 2:05:30.   *)
C6_HmsFormat ==
    Returned("format_min_to_hms") =>
        LET parts == Split(ret.val, ":")
        IN  /\ Len(parts) \in {2, 3}
            /\ Len(parts) = 3 <=> arg >= 7199
            /\ Unpadded(parts[1])
            /\ \A i \in 2..Len(parts) :
                  FieldLen(ret.val, i) = 2 /\ FieldVal(ret.val, i) \in 0..59
            /\ Len(parts) = 3 =>
                  /\ FieldVal(ret.val, 1) >= 1
                  /\ NearestSecond(FieldVal(ret.val, 1) * 3600
                                   + FieldVal(ret.val, 2) * 60
                                   + FieldVal(ret.val, 3), arg)
            /\ Len(parts) = 2 =>
                  NearestSecond(FieldVal(ret.val, 1) * 60 + FieldVal(ret.val, 2), arg)
            /\ arg = 15060 => ret.val = Str_2_05_30

C6_Witness ==
    /\ Returned("format_min_to_hms")
    /\ arg = 600
    /\ ret.val = <<"5", ":", "0", "0">>

(* C7: format_pace returns m:ss /km with the seconds in 00..59: seconds that *)
(* round to 60 carry into the minute; the printed m*60 + ss is the pace      *)
(* rounded to the nearest second; 4.5 gives 4:30 /km.                        *)
C7_PaceSecondsInRange ==
    Returned("format_pace") =>
        LET shown == FirstWord(ret.val).val
        IN  /\ ret.val = shown \o <<" ", "/", "k", "m">>
            /\ Len(Split(shown, ":")) = 2
            /\ FieldLen(shown, 2) = 2
            /\ FieldVal(shown, 2) \in 0..59
            /\ NearestSecond(FieldVal(shown, 1) * 60 + FieldVal(shown, 2), arg)
            /\ arg = 540 => ret.val = Str_4_30

C7_Witness ==
    /\ Returned("format_pace")
    /\ arg = 599
    /\ ret.val = Str_5_00

(* C8 as stated: with no offset given the prediction is exactly *)
(* 4666 * ATS^(-1.33) / DF.                                     *)
C8_NoOffsetByDefault ==
    (Returned("marathon_time_from_ats_df") /\ arg[1] > 0 /\ arg[2] > 0) =>
        ret = Ok(FDiv(PowerLawBase(arg[1]) * 1000, arg[2]))

(* C8 as amended: for ATS > 0 and DF > 0 the prediction is                 *)
(* 4666 * ATS^(-1.33) / DF plus 8 minutes, always: the function has no     *)
(* offset parameter and no form without the offset.                        *)
C8_OffsetAlwaysEight ==
    (Returned("marathon_time_from_ats_df") /\ arg[1] > 0 /\ arg[2] > 0) =>
        /\ ret.tag = "ok"
        /\ (ret.val - 960) * arg[2] <= PowerLawBase(arg[1]) * 1000
        /\ (ret.val - 960 + 1) * arg[2] > PowerLawBase(arg[1]) * 1000

C8_Witness ==
    /\ Returned("marathon_time_from_ats_df")
    /\ arg = <<1320, 1000>>
    /\ ret = Ok(18104 + 960)

Constituents(zone) ==
    IF zone = Z2_Z3 THEN {Z2, Z3} ELSE IF zone = Z3_Z4 THEN {Z3, Z4} ELSE {zone}

(* what a row adds to a zone, in twentieths of a km *)
Share(row, zone) ==
    IF zone \notin Constituents(row.Zone) THEN 0
    ELSE IF row.Zone \in {Z2_Z3, Z3_Z4} THEN row.Distance_km
    ELSE 2 * row.Distance_km

(* C9: summarize_zones adds half of a mixed row's distance to each of its   *)
(* two zones and a single-zone row's whole distance to its own zone; the    *)
(* per-zone km sum to the plan's total distance and no mixed label is a     *)
(* zone of the summary.                                                     *)
C9_ZoneSplit ==
    Returned("summarize_zones") =>
        LET zone_km == ret.val.zone_km
        IN  /\ DOMAIN zone_km \subseteq {Z1, Z2, Z3, Z4, Z5}
            /\ \A i \in 1..Len(arg) : Constituents(arg[i].Zone) \subseteq DOMAIN zone_km
            /\ \A z \in DOMAIN zone_km :
                  zone_km[z] = SumSeq([i \in 1..Len(arg) |-> Share(arg[i], z)])
            /\ DictTotal(zone_km) = 2 * TotalKm(arg)

C9_Witness ==
    /\ Returned("summarize_zones")
    /\ Len(arg) = 2
    /\ arg[1].Zone = Z2_Z3 /\ arg[1].Distance_km = 61
    /\ arg[2].Zone = Z3 /\ arg[2].Distance_km = 100
    /\ ret.val.zone_km[Z2] = 61
    /\ ret.val.zone_km[Z3] = 261

(* C10: one run of the script ends at the 10K error or runs to completion; *)
(* none ends with an uncaught exception.                                   *)
C10_NoUncaughtException == pc # "exception"

=============================================================================
